---------------------------- MODULE Spec2Model ----------------------------
(***************************************************************************)
(* The wasi-otel conversion layer of spin (crates/wasi-otel/src):          *)
(* conversions between the guest (WASI) telemetry records and the host     *)
(* (opentelemetry / opentelemetry_sdk) records.                            *)
(*                                                                         *)
(* Text is a sequence of one-character strings.  A host TraceId (u128) is  *)
(* a sequence of 32 nibbles, a host SpanId (u64) a sequence of 16 nibbles, *)
(* most significant first.  A fallible result is [ok, v]; a conversion     *)
(* that panics produces no value and leaves the machine "aborted".         *)
(***************************************************************************)
EXTENDS Integers, Sequences, FiniteSets, TLC

VARIABLES start, orig, side, cur, hops

vars == <<start, orig, side, cur, hops>>

(***************************************************************************)
(* Bounds of the model.                                                    *)
(***************************************************************************)
MaxHops == 2
MaxTraceState == 2

(***************************************************************************)
(* Widths of the host identifier types, in hex digits.                     *)
(***************************************************************************)
TraceIdHexLen == 32
SpanIdHexLen == 16
SAMPLED == 1
U8Modulus == 256

(***************************************************************************)
(* Sequence helpers.                                                       *)
(***************************************************************************)
Rep(c, n) == [i \in 1..n |-> c]

SetMin(S) == CHOOSE x \in S : \A y \in S : x <= y

Ok(x) == [ok |-> TRUE, v |-> x]

Err == [ok |-> FALSE, v |-> <<>>]

UnwrapOr(r, d) == IF r.ok THEN r.v ELSE d

(***************************************************************************)
(* char::to_digit(16): the value of a hex digit of either case, -1 when    *)
(* the character is no hex digit.                                          *)
(***************************************************************************)
LowerHexChars == <<"0", "1", "2", "3", "4", "5", "6", "7", "8", "9",
                   "a", "b", "c", "d", "e", "f">>

UpperHexChars == <<"0", "1", "2", "3", "4", "5", "6", "7", "8", "9",
                   "A", "B", "C", "D", "E", "F">>

ToDigit(c) ==
    IF \E i \in 1..16 : LowerHexChars[i] = c
    THEN (CHOOSE i \in 1..16 : LowerHexChars[i] = c) - 1
    ELSE IF \E i \in 1..16 : UpperHexChars[i] = c
         THEN (CHOOSE i \in 1..16 : UpperHexChars[i] = c) - 1
         ELSE -1

StripLeadingZeros(ds) ==
    LET nz == {i \in 1..Len(ds) : ds[i] # 0}
    IN  IF nz = {} THEN <<>> ELSE SubSeq(ds, SetMin(nz), Len(ds))

(***************************************************************************)
(* uN::from_str_radix(src, 16) for an unsigned integer of `width` hex      *)
(* digits: an optional leading '+', then one or more hex digits of either  *)
(* case; Err on the empty string, a lone sign, a non-digit, or a value     *)
(* that does not fit.  The length of the text is not otherwise checked.    *)
(***************************************************************************)
FromStrRadix16(src, width) ==
    IF Len(src) = 0 THEN Err
    ELSE IF Len(src) = 1 /\ src[1] \in {"+", "-"} THEN Err
    ELSE LET digits == IF src[1] = "+" THEN Tail(src) ELSE src
             vals == [i \in 1..Len(digits) |-> ToDigit(digits[i])]
             sig == StripLeadingZeros(vals)
         IN  IF \E i \in 1..Len(vals) : vals[i] = -1 THEN Err
             ELSE IF Len(sig) > width THEN Err
             ELSE Ok(Rep(0, width - Len(sig)) \o sig)

(***************************************************************************)
(* format!("{:x}", id): LowerHex of the identifier's integer, with no      *)
(* width given: lowercase digits without leading zeros, "0" for zero.      *)
(***************************************************************************)
FormatLowerHex(id) ==
    LET sig == StripLeadingZeros(id)
    IN  IF sig = <<>> THEN <<"0">>
        ELSE [i \in 1..Len(sig) |-> LowerHexChars[sig[i] + 1]]

TraceIdINVALID == Rep(0, TraceIdHexLen)

SpanIdINVALID == Rep(0, SpanIdHexLen)

TraceIdFromHex(hex) == FromStrRadix16(hex, TraceIdHexLen)

SpanIdFromHex(hex) == FromStrRadix16(hex, SpanIdHexLen)

(***************************************************************************)
(* Trace flags.  The guest TraceFlags is a flags type with the one flag    *)
(* SAMPLED (bit 0); the host TraceFlags wraps a u8.                        *)
(***************************************************************************)
IsSampled(flags) == flags % 2 = SAMPLED

TraceFlagsEmpty == 0

\* From<wasi TraceFlags> for opentelemetry TraceFlags
TraceFlagsFromWasi(flags) == flags % U8Modulus

\* A variant that copies the raw bits instead of testing is_sampled.
TraceFlagsFromOtelRawBits(flags) == flags

\* From<opentelemetry TraceFlags> for wasi TraceFlags
TraceFlagsFromOtel(flags) ==
    IF IsSampled(flags) THEN SAMPLED ELSE TraceFlagsEmpty

(***************************************************************************)
(* Trace state.  The host TraceState is an ordered list of <<key, value>>  *)
(* entries that passed validation; the guest one is any list of pairs.     *)
(***************************************************************************)
LowerAlpha == {"a", "b", "c", "d", "e", "f", "g", "h", "i", "j", "k", "l", "m",
               "n", "o", "p", "q", "r", "s", "t", "u", "v", "w", "x", "y", "z"}

Digits == {"0", "1", "2", "3", "4", "5", "6", "7", "8", "9"}

KeySpecials == {"_", "-", "*", "/"}

MaxKeyLen == 256
MaxVendorLen == 14

\* TraceState::valid_key
ValidKey(key) ==
    /\ Len(key) <= MaxKeyLen
    /\ \A i \in 1..Len(key) : key[i] \in LowerAlpha \cup Digits \cup KeySpecials \cup {"@"}
    /\ Len(key) >= 1 => key[1] \in LowerAlpha \cup Digits
    /\ Cardinality({i \in 1..Len(key) : key[i] = "@"}) <= 1
    /\ \A i \in 1..Len(key) :
          key[i] = "@" =>
             /\ ~((i - 1) + MaxVendorLen < Len(key))
             /\ i < Len(key) => key[i + 1] \in LowerAlpha \cup Digits

\* TraceState::valid_value
ValidValue(value) ==
    /\ Len(value) <= MaxKeyLen
    /\ ~(\E i \in 1..Len(value) : value[i] \in {",", "="})

TraceStateDefault == <<>>

\* A variant that drops the bad entries and keeps the good ones.
TraceStateFromKeyValueLenient(kvs) ==
    Ok(SelectSeq(kvs, LAMBDA kv : ValidKey(kv[1]) /\ ValidValue(kv[2])))

\* TraceState::from_key_value: every entry is validated, one bad entry
\* fails the whole list.
TraceStateFromKeyValue(kvs) ==
    IF \A i \in 1..Len(kvs) : ValidKey(kvs[i][1]) /\ ValidValue(kvs[i][2])
    THEN Ok(kvs)
    ELSE Err

RECURSIVE Join(_, _)
Join(parts, sep) ==
    IF Len(parts) = 0 THEN <<>>
    ELSE IF Len(parts) = 1 THEN parts[1]
    ELSE parts[1] \o sep \o Join(Tail(parts), sep)

\* TraceState::header: "key=value" entries joined by ","
TraceStateHeader(ts) ==
    Join([i \in 1..Len(ts) |-> ts[i][1] \o <<"=">> \o ts[i][2]], <<",">>)

\* str::split(c): the pieces between the occurrences of c; one (empty)
\* piece for the empty string.
RECURSIVE Split(_, _)
Split(s, c) ==
    LET at == {i \in 1..Len(s) : s[i] = c}
    IN  IF at = {} THEN <<s>>
        ELSE <<SubSeq(s, 1, SetMin(at) - 1)>>
                \o Split(SubSeq(s, SetMin(at) + 1, Len(s)), c)

\* str::split_once(c): the text before and after the first c, if any
SplitOnce(s, c) ==
    LET at == {i \in 1..Len(s) : s[i] = c}
    IN  IF at = {} THEN Err
        ELSE Ok(<<SubSeq(s, 1, SetMin(at) - 1), SubSeq(s, SetMin(at) + 1, Len(s))>>)

\* A variant that also drops the entries whose key is empty.
RECURSIVE KeyValuesOfNonEmptyKey(_)
KeyValuesOfNonEmptyKey(parts) ==
    IF Len(parts) = 0 THEN <<>>
    ELSE LET kv == SplitOnce(parts[1], "=")
         IN  (IF kv.ok /\ Len(kv.v[1]) > 0 THEN <<kv.v>> ELSE <<>>)
                \o KeyValuesOfNonEmptyKey(Tail(parts))

\* .filter_map(|s| s.split_once('=')).collect()
RECURSIVE KeyValuesOf(_)
KeyValuesOf(parts) ==
    IF Len(parts) = 0 THEN <<>>
    ELSE LET kv == SplitOnce(parts[1], "=")
         IN  (IF kv.ok THEN <<kv.v>> ELSE <<>>) \o KeyValuesOf(Tail(parts))

(***************************************************************************)
(* Span context, both directions.                                          *)
(***************************************************************************)
\* From<wasi SpanContext> for opentelemetry SpanContext
SpanContextFromWasi(sc) ==
    [trace_id    |-> UnwrapOr(TraceIdFromHex(sc.trace_id), TraceIdINVALID),
     span_id     |-> UnwrapOr(SpanIdFromHex(sc.span_id), SpanIdINVALID),
     trace_flags |-> TraceFlagsFromWasi(sc.trace_flags),
     is_remote   |-> sc.is_remote,
     trace_state |-> UnwrapOr(TraceStateFromKeyValue(sc.trace_state),
                              TraceStateDefault)]

\* From<opentelemetry SpanContext> for wasi SpanContext
SpanContextFromOtel(sc) ==
    [trace_id    |-> FormatLowerHex(sc.trace_id),
     span_id     |-> FormatLowerHex(sc.span_id),
     trace_flags |-> TraceFlagsFromOtel(sc.trace_flags),
     is_remote   |-> sc.is_remote,
     trace_state |-> KeyValuesOf(Split(TraceStateHeader(sc.trace_state), ","))]

(***************************************************************************)
(* Inputs.                                                                 *)
(***************************************************************************)
SeqsUpTo(S, n) == UNION {[1..k -> S] : k \in 0..n}

HostFlagValues == 0..(U8Modulus - 1)

GuestFlagValues == {TraceFlagsEmpty, SAMPLED}

\* Host identifiers: a run of one nibble followed by a short tail, which
\* gives the all-zero id, ids with leading zeros and ids without.
IdFills == {0, 15}

IdTails == {<<>>, <<10>>, <<1, 0>>}

HostIds(width) ==
    {Rep(fill, width - Len(tail)) \o tail : fill \in IdFills, tail \in IdTails}

HostFlagSamples == {0, 1, 2, 255}

HostKeys == {<<"a">>, <<>>}

HostValues == {<<"x", "y">>, <<>>}

HostTraceStates == SeqsUpTo(HostKeys \X HostValues, MaxTraceState)

HostContexts ==
    [trace_id : HostIds(TraceIdHexLen), span_id : HostIds(SpanIdHexLen),
     trace_flags : HostFlagSamples, is_remote : BOOLEAN,
     trace_state : HostTraceStates]

\* Guest identifier texts: an optional sign, a run of one character and a
\* short tail, of the canonical length, one less, one more, and very short.
TextPrefixes == {<<>>, <<"+">>}

TextFills == {"0", "f"}

TextTails == {<<>>, <<"a">>, <<"g">>, <<"A">>}

TextLens(width) == {0, 1, width - 1, width, width + 1}

GuestIdTexts(width) ==
    {pre \o Rep(fill, n - Len(pre) - Len(tail)) \o tail :
        pre \in TextPrefixes, fill \in TextFills, tail \in TextTails,
        n \in TextLens(width)}

CanonicalText(width) == Rep("f", width)

GuestKeys == {<<"a">>, <<"A">>}

GuestValues == {<<"x">>, <<"x", "=", "y">>}

GuestTraceStates == SeqsUpTo(GuestKeys \X GuestValues, MaxTraceState)

\* The two identifier fields are converted independently: one of them
\* ranges over all the texts while the other is canonical or empty.
GuestContexts ==
    [trace_id : GuestIdTexts(TraceIdHexLen),
     span_id : {CanonicalText(SpanIdHexLen), <<>>},
     trace_flags : GuestFlagValues, is_remote : BOOLEAN,
     trace_state : GuestTraceStates]
    \cup
    [trace_id : {CanonicalText(TraceIdHexLen), <<>>},
     span_id : GuestIdTexts(SpanIdHexLen),
     trace_flags : GuestFlagValues, is_remote : BOOLEAN,
     trace_state : GuestTraceStates]

(***************************************************************************)
(* The machine: a value crosses the guest/host boundary, at most MaxHops   *)
(* times.  start is the side it began on, orig the value it began as,      *)
(* side and cur where and what it is now.                                  *)
(***************************************************************************)
InitFrom(s, values) ==
    /\ start = s
    /\ orig \in values
    /\ side = s
    /\ cur = orig
    /\ hops = 0

Cross(from, to, value) ==
    /\ side = from
    /\ hops < MaxHops
    /\ side' = to
    /\ cur' = value
    /\ hops' = hops + 1
    /\ UNCHANGED <<start, orig>>

\* trace flags
FlagsToGuest == Cross("host", "guest", TraceFlagsFromOtel(cur))

FlagsToHost == Cross("guest", "host", TraceFlagsFromWasi(cur))

InitFlags == InitFrom("host", HostFlagValues) \/ InitFrom("guest", GuestFlagValues)

NextFlags == FlagsToGuest \/ FlagsToHost

SpecFlags == InitFlags /\ [][NextFlags]_vars

\* span contexts
ContextToGuest == Cross("host", "guest", SpanContextFromOtel(cur))

ContextToHost == Cross("guest", "host", SpanContextFromWasi(cur))

InitContext == InitFrom("host", HostContexts) \/ InitFrom("guest", GuestContexts)

NextContext == ContextToGuest \/ ContextToHost

SpecContext == InitContext /\ [][NextContext]_vars

(***************************************************************************)
(* Timestamps.  A guest Datetime is seconds (u64) and nanoseconds (u32);   *)
(* both are written in 16-bit limbs, most significant first, so that the   *)
(* full width is kept.  A host SystemTime is tv_sec (a non-negative i64,   *)
(* in limbs) and tv_nsec (below 10^9).                                     *)
(***************************************************************************)
Limb == 65536
HalfLimb == 32768
NanosPerSec == 1000000000
\* 2^31 - 2 * 10^9
TwoTo31Rest == 147483648

\* Duration::from_nanos(n as u64) for a u32 n: <<whole seconds, subsecond nanos>>
DurationFromNanos(n) ==
    IF n[1] < HalfLimb
    THEN LET x == n[1] * Limb + n[2]
         IN  <<x \div NanosPerSec, x % NanosPerSec>>
    ELSE LET m == (n[1] - HalfLimb) * Limb + n[2]
             r == TwoTo31Rest + (m % NanosPerSec)
         IN  <<2 + (m \div NanosPerSec) + (r \div NanosPerSec), r % NanosPerSec>>

\* x + k for a four-limb x and a small k: <<carry out, limbs>>
AddSmall(x, k) ==
    LET s4 == x[4] + k
        s3 == x[3] + (s4 \div Limb)
        s2 == x[2] + (s3 \div Limb)
        s1 == x[1] + (s2 \div Limb)
    IN  <<s1 \div Limb, <<s1 % Limb, s2 % Limb, s3 % Limb, s4 % Limb>>>>

\* i64::checked_add of a non-negative tv_sec and a small k
CheckedAddSecs(x, k) ==
    LET r == AddSmall(x, k)
    IN  IF r[1] # 0 \/ r[2][1] >= HalfLimb THEN Err ELSE Ok(r[2])

\* A variant that wraps instead of panicking when the seconds do not fit.
SystemTimeFromDatetimeWrapping(timestamp) ==
    LET d == DurationFromNanos(timestamp.nanoseconds)
        r == AddSmall(timestamp.seconds, d[1])[2]
    IN  Ok([tv_sec |-> <<r[1] % HalfLimb, r[2], r[3], r[4]>>, tv_nsec |-> d[2]])

\* From<wall_clock::Datetime> for SystemTime:
\* UNIX_EPOCH + Duration::from_secs(seconds) + Duration::from_nanos(nanoseconds);
\* SystemTime + Duration panics when the sum does not fit (Err here).
SystemTimeFromDatetime(timestamp) ==
    IF timestamp.seconds[1] >= HalfLimb THEN Err
    ELSE LET d == DurationFromNanos(timestamp.nanoseconds)
             secs == CheckedAddSecs(timestamp.seconds, d[1])
         IN  IF secs.ok THEN Ok([tv_sec |-> secs.v, tv_nsec |-> d[2]]) ELSE Err

(***************************************************************************)
(* Attribute values, key/values and instrumentation scopes.                *)
(***************************************************************************)
\* From<wasi Value> for opentelemetry Value.  Each variant keeps its payload
\* in a field of its own; a string array is wrapped string by string.
ValueFromWasi(value) ==
    CASE value.tag = "String" -> [tag |-> "String", text |-> value.text]
      [] value.tag = "Bool" -> [tag |-> "Bool", bool |-> value.bool]
      [] value.tag = "F64" -> [tag |-> "F64", float |-> value.float]
      [] value.tag = "S64" -> [tag |-> "I64", int |-> value.int]
      [] value.tag = "StringArray" ->
            [tag |-> "Array", of |-> "String",
             texts |-> [i \in 1..Len(value.texts) |-> value.texts[i]]]
      [] value.tag = "BoolArray" -> [tag |-> "Array", of |-> "Bool", bools |-> value.bools]
      [] value.tag = "F64Array" -> [tag |-> "Array", of |-> "F64", floats |-> value.floats]
      [] value.tag = "S64Array" -> [tag |-> "Array", of |-> "I64", ints |-> value.ints]

\* From<wasi KeyValue> for opentelemetry KeyValue
KeyValueFromWasi(kv) == [key |-> kv.key, value |-> ValueFromWasi(kv.value)]

\* .into_iter().map(Into::into).collect() over a list of key/values
KeyValuesFromWasi(kvs) == [i \in 1..Len(kvs) |-> KeyValueFromWasi(kvs[i])]

None == [some |-> FALSE]

Some(x) == [some |-> TRUE, v |-> x]

\* From<wasi InstrumentationScope> for opentelemetry InstrumentationScope
InstrumentationScopeFromWasi(value) ==
    LET builder == [name |-> value.name,
                    attributes |-> KeyValuesFromWasi(value.attributes),
                    version |-> None, schema_url |-> None]
    IN  CASE value.version.some /\ value.schema_url.some ->
                [builder EXCEPT !.version = Some(value.version.v),
                                !.schema_url = Some(value.schema_url.v)]
          [] value.version.some /\ ~value.schema_url.some ->
                [builder EXCEPT !.version = Some(value.version.v)]
          [] ~value.version.some /\ value.schema_url.some ->
                [builder EXCEPT !.schema_url = Some(value.schema_url.v)]
          [] OTHER -> builder

(***************************************************************************)
(* Spans.                                                                  *)
(***************************************************************************)
SpanKinds == {"Client", "Server", "Producer", "Consumer", "Internal"}

\* From<wasi SpanKind> for opentelemetry SpanKind
SpanKindFromWasi(kind) ==
    CASE kind = "Client" -> "Client"
      [] kind = "Server" -> "Server"
      [] kind = "Producer" -> "Producer"
      [] kind = "Consumer" -> "Consumer"
      [] kind = "Internal" -> "Internal"

\* From<wasi Status> for opentelemetry Status
StatusFromWasi(status) ==
    CASE status.tag = "Unset" -> [tag |-> "Unset"]
      [] status.tag = "Ok" -> [tag |-> "Ok"]
      [] status.tag = "Error" -> [tag |-> "Error", description |-> status.v]

\* From<wasi Event> for opentelemetry Event; Err when the time panics
EventFromWasi(event) ==
    LET time == SystemTimeFromDatetime(event.time)
    IN  IF ~time.ok THEN Err
        ELSE Ok([name |-> event.name, timestamp |-> time.v,
                 attributes |-> KeyValuesFromWasi(event.attributes),
                 dropped_attributes_count |-> 0])

\* From<wasi Link> for opentelemetry Link
LinkFromWasi(link) ==
    [span_context |-> SpanContextFromWasi(link.span_context),
     attributes |-> KeyValuesFromWasi(link.attributes),
     dropped_attributes_count |-> 0]

\* A variant that recomputes the dropped-event count from the list.
DroppedEventsRecomputed(value) == Len(value.events)

\* span_events.dropped_count = value.dropped_events
DroppedEvents(value) == value.dropped_events

\* From<wasi SpanData> for opentelemetry_sdk SpanData; Err when a time panics
SpanDataFromWasi(value) ==
    LET events == [i \in 1..Len(value.events) |-> EventFromWasi(value.events[i])]
        span_events == [events |-> [i \in 1..Len(events) |-> events[i].v],
                        dropped_count |-> DroppedEvents(value)]
        span_links == [links |-> [i \in 1..Len(value.links) |-> LinkFromWasi(value.links[i])],
                       dropped_count |-> value.dropped_links]
        start_time == SystemTimeFromDatetime(value.start_time)
        end_time == SystemTimeFromDatetime(value.end_time)
    IN  IF \/ \E i \in 1..Len(events) : ~events[i].ok
           \/ ~start_time.ok
           \/ ~end_time.ok
        THEN Err
        ELSE Ok([span_context |-> SpanContextFromWasi(value.span_context),
                 parent_span_id |-> UnwrapOr(SpanIdFromHex(value.parent_span_id),
                                             SpanIdINVALID),
                 span_kind |-> SpanKindFromWasi(value.span_kind),
                 name |-> value.name,
                 start_time |-> start_time.v,
                 end_time |-> end_time.v,
                 attributes |-> KeyValuesFromWasi(value.attributes),
                 dropped_attributes_count |-> value.dropped_attributes,
                 events |-> span_events,
                 links |-> span_links,
                 status |-> StatusFromWasi(value.status),
                 instrumentation_scope |->
                     InstrumentationScopeFromWasi(value.instrumentation_scope)])

(***************************************************************************)
(* Span inputs.                                                            *)
(***************************************************************************)
MaxEvents == 2
MaxLinks == 1
MaxAttributes == 1

U64Zero == <<0, 0, 0, 0>>

\* i64::MAX seconds
U64I64Max == <<32767, 65535, 65535, 65535>>

\* i64::MAX + 1 seconds
U64I64MaxPlus1 == <<32768, 0, 0, 0>>

U64Max == <<65535, 65535, 65535, 65535>>

\* nanoseconds: 0, 999999999, 10^9 and u32::MAX
U32Zero == <<0, 0>>

U32LastNano == <<15258, 51711>>

U32OneSecond == <<15258, 51712>>

U32Max == <<65535, 65535>>

TimeEpoch == [seconds |-> U64Zero, nanoseconds |-> U32Zero]

TimeLate == [seconds |-> <<0, 0, 1, 4464>>, nanoseconds |-> U32LastNano]

TimeOverflow == [seconds |-> U64I64MaxPlus1, nanoseconds |-> U32Zero]

Datetimes ==
    [seconds : {U64Zero, <<0, 0, 0, 1>>, <<0, 0, 0, 65535>>, <<0, 0, 1, 0>>,
                <<0, 0, 65535, 65535>>, <<0, 1, 0, 0>>,
                <<32767, 65535, 65535, 65531>>, <<32767, 65535, 65535, 65532>>,
                U64I64Max, U64I64MaxPlus1, U64Max},
     nanoseconds : {U32Zero, <<0, 1>>, U32LastNano, U32OneSecond, <<32768, 0>>,
                    U32Max}]

AttributeValues ==
    {[tag |-> "String", text |-> "s"], [tag |-> "S64Array", ints |-> <<1, -2>>]}

Attributes == [key : {"k"}, value : AttributeValues]

AttributeLists == SeqsUpTo(Attributes, MaxAttributes)

PlainContext ==
    [trace_id |-> CanonicalText(TraceIdHexLen), span_id |-> CanonicalText(SpanIdHexLen),
     trace_flags |-> SAMPLED, is_remote |-> FALSE, trace_state |-> <<>>]

Events ==
    {[name |-> "e1", time |-> TimeEpoch, attributes |-> <<>>],
     [name |-> "e2", time |-> TimeLate,
      attributes |-> <<[key |-> "k", value |-> [tag |-> "String", text |-> "s"]]>>]}

Links ==
    {[span_context |-> PlainContext, attributes |-> <<>>],
     [span_context |-> [PlainContext EXCEPT !.trace_id = <<"g">>],
      attributes |-> <<[key |-> "k", value |-> [tag |-> "String", text |-> "s"]]>>]}

\* u32 counts, unrelated to the lengths of the lists
DroppedCounts == {0, 3}

Scopes ==
    [name : {"scope"}, version : {None, Some("1.0")},
     schema_url : {None, Some("url")}, attributes : {<<>>}]

Statuses == {[tag |-> "Unset"], [tag |-> "Ok"], [tag |-> "Error", v |-> "boom"]}

PlainScope == [name |-> "scope", version |-> None, schema_url |-> None,
               attributes |-> <<>>]

\* Spans whose lists and dropped counts vary, and spans whose scalar
\* fields vary: the fields are converted independently of one another.
GuestSpans ==
    [span_context : {PlainContext},
     parent_span_id : {CanonicalText(SpanIdHexLen)},
     span_kind : {"Internal"},
     name : {"span"},
     start_time : {TimeEpoch},
     end_time : {TimeLate, TimeOverflow},
     attributes : AttributeLists,
     dropped_attributes : DroppedCounts,
     events : SeqsUpTo(Events \cup {[name |-> "e3", time |-> TimeOverflow,
                                     attributes |-> <<>>]}, MaxEvents),
     dropped_events : DroppedCounts,
     links : SeqsUpTo(Links, MaxLinks),
     dropped_links : DroppedCounts,
     status : {[tag |-> "Unset"]},
     instrumentation_scope : {PlainScope}]
    \cup
    [span_context : {PlainContext},
     parent_span_id : GuestIdTexts(SpanIdHexLen),
     span_kind : SpanKinds,
     name : {"span"},
     start_time : {TimeEpoch, TimeOverflow},
     end_time : {TimeLate},
     attributes : {<<>>},
     dropped_attributes : {0},
     events : {<<>>},
     dropped_events : {0},
     links : {<<>>},
     dropped_links : {0},
     status : Statuses,
     instrumentation_scope : Scopes]

(***************************************************************************)
(* One-way conversions: the guest value becomes a host value, or the       *)
(* conversion panics and nothing is produced.                              *)
(***************************************************************************)
Convert(result) ==
    /\ side = "guest"
    /\ hops < MaxHops
    /\ hops' = hops + 1
    /\ IF result.ok
       THEN side' = "host" /\ cur' = result.v
       ELSE side' = "aborted" /\ cur' = cur
    /\ UNCHANGED <<start, orig>>

SpanToHost == Convert(SpanDataFromWasi(cur))

InitSpan == InitFrom("guest", GuestSpans)

NextSpan == SpanToHost

SpecSpan == InitSpan /\ [][NextSpan]_vars

\* timestamps on their own
TimeToHost == Convert(SystemTimeFromDatetime(cur))

InitTime == InitFrom("guest", Datetimes)

NextTime == TimeToHost

SpecTime == InitTime /\ [][NextTime]_vars

(***************************************************************************)
(* Metrics.  A MetricNumber is [kind, n] with kind F64, S64 or U64; the n  *)
(* of an F64 stands for the float's bit pattern.  A conversion that panics *)
(* is Err.                                                                 *)
(***************************************************************************)
\* A variant that hands over the number whatever its variant.
MetricNumberIntoCoercing(kind, value) == Ok(value.n)

\* From<MetricNumber> for f64 / u64 / i64: the number of the matching
\* variant, a panic for any other
MetricNumberInto(kind, value) ==
    IF value.kind = kind THEN Ok(value.n) ELSE Err

\* match x { Some(m) => Some(m.into()), None => None }
OptionNumberInto(kind, x) ==
    IF x.some
    THEN LET m == MetricNumberInto(kind, x.v)
         IN  IF m.ok THEN Ok(Some(m.v)) ELSE Err
    ELSE Ok(None)

\* From<wasi Temporality> for opentelemetry_sdk Temporality
TemporalityFromWasi(value) ==
    CASE value = "Cumulative" -> "Cumulative"
      [] value = "Delta" -> "Delta"
      [] value = "LowMemory" -> "LowMemory"

\* From<wasi ExponentialBucket> for opentelemetry_sdk ExponentialBucket
ExponentialBucketFromWasi(value) ==
    [offset |-> value.offset, counts |-> value.counts]

\* The UTF-8 bytes of the characters used in exemplar identifiers; "U+00E9"
\* stands for the one character e-acute, two bytes long.
Utf8Table ==
    <<<<"0", <<48>>>>, <<"1", <<49>>>>, <<"f", <<102>>>>, <<"a", <<97>>>>,
      <<"U+00E9", <<195, 169>>>>>>

Utf8(c) == (CHOOSE e \in {Utf8Table[i] : i \in 1..Len(Utf8Table)} : e[1] = c)[2]

\* String::as_bytes
RECURSIVE AsBytes(_)
AsBytes(text) ==
    IF Len(text) = 0 THEN <<>> ELSE Utf8(text[1]) \o AsBytes(Tail(text))

SpanIdBytes == 8
TraceIdBytes == 16

\* A variant that substitutes the all-zero identifier for a wrong length.
TryIntoArrayOrZero(bytes, n) ==
    IF Len(bytes) = n THEN Ok(bytes) ELSE Ok(Rep(0, n))

\* <[u8; n]>::try_from(bytes): the bytes themselves when there are exactly
\* n of them; .expect(..) panics otherwise
TryIntoArray(bytes, n) ==
    IF Len(bytes) = n THEN Ok(bytes) ELSE Err

AllOk(results) == \A i \in 1..Len(results) : results[i].ok

Unwrapped(results) == [i \in 1..Len(results) |-> results[i].v]

\* One exemplar of exemplars_to_otel!
ExemplarToOtel(e, kind) ==
    LET span_id == TryIntoArray(AsBytes(e.span_id), SpanIdBytes)
        trace_id == TryIntoArray(AsBytes(e.trace_id), TraceIdBytes)
        time == SystemTimeFromDatetime(e.time)
        value == MetricNumberInto(kind, e.value)
    IN  IF span_id.ok /\ trace_id.ok /\ time.ok /\ value.ok
        THEN Ok([filtered_attributes |-> KeyValuesFromWasi(e.filtered_attributes),
                 time |-> time.v,
                 value |-> value.v,
                 span_id |-> span_id.v,
                 trace_id |-> trace_id.v])
        ELSE Err

\* exemplars_to_otel!
ExemplarsToOtel(wasi_exemplar_list, kind) ==
    LET es == [i \in 1..Len(wasi_exemplar_list) |->
                  ExemplarToOtel(wasi_exemplar_list[i], kind)]
    IN  IF AllOk(es) THEN Ok(Unwrapped(es)) ELSE Err

\* The data point of wasi_gauge_to_otel! and wasi_sum_to_otel!
NumberDataPoint(dp, kind) ==
    LET value == MetricNumberInto(kind, dp.value)
        exemplars == ExemplarsToOtel(dp.exemplars, kind)
    IN  IF value.ok /\ exemplars.ok
        THEN Ok([attributes |-> KeyValuesFromWasi(dp.attributes),
                 value |-> value.v,
                 exemplars |-> exemplars.v])
        ELSE Err

\* wasi_gauge_to_otel!
WasiGaugeToOtel(gauge, kind) ==
    LET dps == [i \in 1..Len(gauge.data_points) |->
                   NumberDataPoint(gauge.data_points[i], kind)]
        start_time == IF gauge.start_time.some
                      THEN SystemTimeFromDatetime(gauge.start_time.v)
                      ELSE Ok(<<>>)
        time == SystemTimeFromDatetime(gauge.time)
    IN  IF AllOk(dps) /\ start_time.ok /\ time.ok
        THEN Ok([aggregation |-> "Gauge", number_type |-> kind,
                 data_points |-> Unwrapped(dps),
                 start_time |-> IF gauge.start_time.some
                                THEN Some(start_time.v) ELSE None,
                 time |-> time.v])
        ELSE Err

\* A variant that keeps only the data points whose value is not zero.
SumPointsNonZero(sum) ==
    SelectSeq(sum.data_points, LAMBDA dp : dp.value.n # 0)

\* $sum.data_points.iter()
SumPoints(sum) == sum.data_points

\* wasi_sum_to_otel!
WasiSumToOtel(sum, kind) ==
    LET dps == [i \in 1..Len(SumPoints(sum)) |->
                   NumberDataPoint(SumPoints(sum)[i], kind)]
        start_time == SystemTimeFromDatetime(sum.start_time)
        time == SystemTimeFromDatetime(sum.time)
    IN  IF AllOk(dps) /\ start_time.ok /\ time.ok
        THEN Ok([aggregation |-> "Sum", number_type |-> kind,
                 data_points |-> Unwrapped(dps),
                 start_time |-> start_time.v,
                 time |-> time.v,
                 temporality |-> TemporalityFromWasi(sum.temporality),
                 is_monotonic |-> sum.is_monotonic])
        ELSE Err

\* A variant that puts the bounds in ascending order (for the bounds used
\* here: a list that is not ascending is reversed).
BoundsSorted(dp) ==
    IF \A i \in 1..(Len(dp.bounds) - 1) : dp.bounds[i] <= dp.bounds[i + 1]
    THEN dp.bounds
    ELSE [i \in 1..Len(dp.bounds) |-> dp.bounds[Len(dp.bounds) + 1 - i]]

\* bounds: dp.bounds.to_owned()
Bounds(dp) == dp.bounds

\* The data point of wasi_histogram_to_otel!
HistogramDataPoint(dp, kind) ==
    LET exemplars == ExemplarsToOtel(dp.exemplars, kind)
        max == OptionNumberInto(kind, dp.max)
        min == OptionNumberInto(kind, dp.min)
        sum == MetricNumberInto(kind, dp.sum)
    IN  IF exemplars.ok /\ max.ok /\ min.ok /\ sum.ok
        THEN Ok([attributes |-> KeyValuesFromWasi(dp.attributes),
                 bounds |-> Bounds(dp),
                 bucket_counts |-> dp.bucket_counts,
                 exemplars |-> exemplars.v,
                 count |-> dp.count,
                 max |-> max.v,
                 min |-> min.v,
                 sum |-> sum.v])
        ELSE Err

\* wasi_histogram_to_otel!
WasiHistogramToOtel(histogram, kind) ==
    LET dps == [i \in 1..Len(histogram.data_points) |->
                   HistogramDataPoint(histogram.data_points[i], kind)]
        start_time == SystemTimeFromDatetime(histogram.start_time)
        time == SystemTimeFromDatetime(histogram.time)
    IN  IF AllOk(dps) /\ start_time.ok /\ time.ok
        THEN Ok([aggregation |-> "Histogram", number_type |-> kind,
                 data_points |-> Unwrapped(dps),
                 start_time |-> start_time.v,
                 time |-> time.v,
                 temporality |-> TemporalityFromWasi(histogram.temporality)])
        ELSE Err

\* The data point of wasi_exponential_histogram_to_otel!; count as usize
\* keeps the count on a 64-bit host.
ExponentialHistogramDataPoint(dp, kind) ==
    LET exemplars == ExemplarsToOtel(dp.exemplars, kind)
        max == OptionNumberInto(kind, dp.max)
        min == OptionNumberInto(kind, dp.min)
        sum == MetricNumberInto(kind, dp.sum)
    IN  IF exemplars.ok /\ max.ok /\ min.ok /\ sum.ok
        THEN Ok([attributes |-> KeyValuesFromWasi(dp.attributes),
                 exemplars |-> exemplars.v,
                 count |-> dp.count,
                 max |-> max.v,
                 min |-> min.v,
                 sum |-> sum.v,
                 scale |-> dp.scale,
                 zero_count |-> dp.zero_count,
                 positive_bucket |-> ExponentialBucketFromWasi(dp.positive_bucket),
                 negative_bucket |-> ExponentialBucketFromWasi(dp.negative_bucket),
                 zero_threshold |-> dp.zero_threshold])
        ELSE Err

\* wasi_exponential_histogram_to_otel!
WasiExponentialHistogramToOtel(histogram, kind) ==
    LET dps == [i \in 1..Len(histogram.data_points) |->
                   ExponentialHistogramDataPoint(histogram.data_points[i], kind)]
        start_time == SystemTimeFromDatetime(histogram.start_time)
        time == SystemTimeFromDatetime(histogram.time)
    IN  IF AllOk(dps) /\ start_time.ok /\ time.ok
        THEN Ok([aggregation |-> "ExponentialHistogram", number_type |-> kind,
                 data_points |-> Unwrapped(dps),
                 start_time |-> start_time.v,
                 time |-> time.v,
                 temporality |-> TemporalityFromWasi(histogram.temporality)])
        ELSE Err

\* From<MetricData> for Box<dyn Aggregation>: the twelve-way match
AggregationFromMetricData(value) ==
    CASE value.variant = "F64Sum" -> WasiSumToOtel(value.data, "F64")
      [] value.variant = "S64Sum" -> WasiSumToOtel(value.data, "S64")
      [] value.variant = "U64Sum" -> WasiSumToOtel(value.data, "U64")
      [] value.variant = "F64Gauge" -> WasiGaugeToOtel(value.data, "F64")
      [] value.variant = "S64Gauge" -> WasiGaugeToOtel(value.data, "S64")
      [] value.variant = "U64Gauge" -> WasiGaugeToOtel(value.data, "U64")
      [] value.variant = "F64Histogram" -> WasiHistogramToOtel(value.data, "F64")
      [] value.variant = "S64Histogram" -> WasiHistogramToOtel(value.data, "S64")
      [] value.variant = "U64Histogram" -> WasiHistogramToOtel(value.data, "U64")
      [] value.variant = "F64ExponentialHistogram" ->
            WasiExponentialHistogramToOtel(value.data, "F64")
      [] value.variant = "S64ExponentialHistogram" ->
            WasiExponentialHistogramToOtel(value.data, "S64")
      [] value.variant = "U64ExponentialHistogram" ->
            WasiExponentialHistogramToOtel(value.data, "U64")

(***************************************************************************)
(* Metric inputs.  Lists of up to MaxPoints data points and MaxExemplars   *)
(* exemplars are drawn from a few plain values; single data points and     *)
(* single exemplars range over many more.                                  *)
(***************************************************************************)
MaxPoints == 2
MaxExemplars == 1

F64Number(n) == [kind |-> "F64", n |-> n]

S64Number(n) == [kind |-> "S64", n |-> n]

U64Number(n) == [kind |-> "U64", n |-> n]

MetricNumbers == {F64Number(15), F64Number(0), S64Number(-7), U64Number(7)}

OptionNumbers == {None} \cup {Some(n) : n \in MetricNumbers}

GoodSpanIdText == <<"0", "0", "0", "0", "0", "0", "0", "f">>

GoodTraceIdText == Rep("a", TraceIdBytes)

\* Identifier strings of n bytes, of other lengths (among them the 2n
\* characters of a hex text) and of n bytes in fewer characters.
IdByteTexts(n) ==
    {Rep("a", n), Rep("0", n - 1) \o <<"1">>, Rep("a", n - 1), Rep("a", n + 1),
     Rep("a", 2 * n), <<>>, Rep("a", n - 2) \o <<"U+00E9">>,
     Rep("a", n - 1) \o <<"U+00E9">>}

Exemplar(value, span_id, trace_id, time, attributes) ==
    [filtered_attributes |-> attributes, time |-> time, value |-> value,
     span_id |-> span_id, trace_id |-> trace_id]

PlainExemplars ==
    {Exemplar(n, GoodSpanIdText, GoodTraceIdText, TimeEpoch, <<>>) : n \in MetricNumbers}

Exemplars ==
    PlainExemplars
    \cup {Exemplar(n, sid, GoodTraceIdText, TimeLate, <<>>) :
             n \in MetricNumbers, sid \in IdByteTexts(SpanIdBytes)}
    \cup {Exemplar(n, GoodSpanIdText, tid, TimeLate, <<>>) :
             n \in MetricNumbers, tid \in IdByteTexts(TraceIdBytes)}
    \cup {Exemplar(n, GoodSpanIdText, GoodTraceIdText, TimeOverflow, kvs) :
             n \in MetricNumbers, kvs \in AttributeLists}

ExemplarLists ==
    SeqsUpTo(PlainExemplars, MaxExemplars) \cup {<<e>> : e \in Exemplars}

PlainPoints ==
    {[attributes |-> <<>>, value |-> n, exemplars |-> <<>>] : n \in MetricNumbers}

Points ==
    [attributes : AttributeLists, value : MetricNumbers, exemplars : ExemplarLists]

Temporalities == {"Cumulative", "Delta", "LowMemory"}

Sums ==
    [data_points : SeqsUpTo(PlainPoints, MaxPoints),
     start_time : {TimeEpoch}, time : {TimeLate, TimeOverflow},
     temporality : Temporalities, is_monotonic : BOOLEAN]
    \cup
    [data_points : {<<p>> : p \in Points},
     start_time : {TimeEpoch}, time : {TimeLate},
     temporality : {"Delta"}, is_monotonic : {TRUE}]

Gauges ==
    [data_points : SeqsUpTo(PlainPoints, MaxPoints),
     start_time : {None, Some(TimeEpoch), Some(TimeOverflow)},
     time : {TimeLate, TimeOverflow}]
    \cup
    [data_points : {<<p>> : p \in Points},
     start_time : {None}, time : {TimeLate}]

\* Bounds and counts as the guest gives them: ascending or not, and of
\* lengths that need not fit each other.
BoundsSamples == {<<0, 10, 100>>, <<100, 0, 10>>, <<>>}

BucketCountsSamples == {<<1, 2, 3, 4>>, <<5>>, <<>>}

HistogramPoint(bounds, bucket_counts, exemplars, count, max, min, sum) ==
    [attributes |-> <<>>, bounds |-> bounds, bucket_counts |-> bucket_counts,
     exemplars |-> exemplars, count |-> count, max |-> max, min |-> min,
     sum |-> sum]

PlainHistogramPoints ==
    {HistogramPoint(b, <<1, 2, 3, 4>>, <<>>, 10, None, None, n) :
        b \in {<<0, 10, 100>>, <<100, 0, 10>>},
        n \in {F64Number(15), S64Number(-7), U64Number(7)}}

HistogramPoints ==
    {HistogramPoint(b, c, <<>>, k, None, None, n) :
        b \in BoundsSamples, c \in BucketCountsSamples, k \in {0, 10},
        n \in MetricNumbers}
    \cup {HistogramPoint(<<100, 0, 10>>, <<5>>, es, 10, None, None, n) :
             es \in ExemplarLists, n \in MetricNumbers}
    \cup {HistogramPoint(<<0, 10, 100>>, <<1, 2, 3, 4>>, <<>>, 10, max, min, n) :
             max \in OptionNumbers, min \in OptionNumbers, n \in MetricNumbers}

Histograms ==
    [data_points : SeqsUpTo(PlainHistogramPoints, MaxPoints),
     start_time : {TimeEpoch}, time : {TimeLate, TimeOverflow},
     temporality : Temporalities]
    \cup
    [data_points : {<<p>> : p \in HistogramPoints},
     start_time : {TimeEpoch}, time : {TimeLate},
     temporality : {"Cumulative"}]

ExponentialBuckets ==
    {[offset |-> -2, counts |-> <<1, 2>>], [offset |-> 0, counts |-> <<>>]}

ExponentialHistogramPoints ==
    [attributes : {<<>>}, exemplars : SeqsUpTo(PlainExemplars, MaxExemplars),
     count : {10}, max : OptionNumbers, min : {None}, sum : MetricNumbers,
     scale : {-1, 3}, zero_count : {0, 2},
     positive_bucket : ExponentialBuckets,
     negative_bucket : {[offset |-> 0, counts |-> <<>>]},
     zero_threshold : {0}]
    \cup
    [attributes : {<<>>}, exemplars : {<<>>},
     count : {10}, max : {None}, min : OptionNumbers, sum : MetricNumbers,
     scale : {3}, zero_count : {0},
     positive_bucket : {[offset |-> 0, counts |-> <<>>]},
     negative_bucket : ExponentialBuckets,
     zero_threshold : {0}]

ExponentialHistograms ==
    [data_points : SeqsUpTo(ExponentialHistogramPoints, 1),
     start_time : {TimeEpoch}, time : {TimeLate, TimeOverflow},
     temporality : {"Cumulative", "Delta"}]

\* The twelve variants of MetricData: the shape and the declared number kind
Variants ==
    {[variant |-> "F64Sum", shape |-> "Sum", kind |-> "F64"],
     [variant |-> "S64Sum", shape |-> "Sum", kind |-> "S64"],
     [variant |-> "U64Sum", shape |-> "Sum", kind |-> "U64"],
     [variant |-> "F64Gauge", shape |-> "Gauge", kind |-> "F64"],
     [variant |-> "S64Gauge", shape |-> "Gauge", kind |-> "S64"],
     [variant |-> "U64Gauge", shape |-> "Gauge", kind |-> "U64"],
     [variant |-> "F64Histogram", shape |-> "Histogram", kind |-> "F64"],
     [variant |-> "S64Histogram", shape |-> "Histogram", kind |-> "S64"],
     [variant |-> "U64Histogram", shape |-> "Histogram", kind |-> "U64"],
     [variant |-> "F64ExponentialHistogram", shape |-> "ExponentialHistogram",
      kind |-> "F64"],
     [variant |-> "S64ExponentialHistogram", shape |-> "ExponentialHistogram",
      kind |-> "S64"],
     [variant |-> "U64ExponentialHistogram", shape |-> "ExponentialHistogram",
      kind |-> "U64"]}

VariantsOf(shape) == {x.variant : x \in {y \in Variants : y.shape = shape}}

ShapeOf(variant) == (CHOOSE x \in Variants : x.variant = variant).shape

KindOf(variant) == (CHOOSE x \in Variants : x.variant = variant).kind

GuestMetrics ==
    [variant : VariantsOf("Sum"), data : Sums]
    \cup [variant : VariantsOf("Gauge"), data : Gauges]
    \cup [variant : VariantsOf("Histogram"), data : Histograms]
    \cup [variant : VariantsOf("ExponentialHistogram"), data : ExponentialHistograms]

MetricToHost == Convert(AggregationFromMetricData(cur))

InitMetric == InitFrom("guest", GuestMetrics)

NextMetric == MetricToHost

SpecMetric == InitMetric /\ [][NextMetric]_vars

(***************************************************************************)
(* Properties of the trace-flags and span-context conversions.             *)
(***************************************************************************)
RoundTripFromHost == start = "host" /\ hops = 2 /\ side = "host"

RoundTripFromGuest == start = "guest" /\ hops = 2 /\ side = "guest"

EncodedFromHost == start = "host" /\ hops = 1 /\ side = "guest"

DecodedFromGuest == start = "guest" /\ hops = 1 /\ side = "host"

\* C1 as stated: a host trace-flags value of any 8-bit pattern, taken to the
\* guest and back, is the value it was.
C1_RoundTripAnyFlags == RoundTripFromHost => cur = orig

\* C1, amended: the round trip keeps the SAMPLED bit and clears every other
\* bit, so it returns the original value exactly when that value is empty or
\* SAMPLED.
C1_RoundTripKeepsSampledOnly ==
    RoundTripFromHost =>
        /\ cur = (IF orig % 2 = 1 THEN SAMPLED ELSE TraceFlagsEmpty)
        /\ (cur = orig) <=> (orig \in {TraceFlagsEmpty, SAMPLED})

C1_Witness == RoundTripFromHost /\ orig = 3 /\ cur = SAMPLED

\* C2 as stated: a host span context (any ids, any flags, any valid trace
\* state), taken to the guest and back, is equal in every field.
C2_RoundTripAnyContext == RoundTripFromHost => cur = orig

\* C2, amended: the round trip preserves the trace id, the span id, is_remote
\* and the trace-state entries in order; of the trace flags it preserves the
\* SAMPLED bit only, so the context is equal when its flags are empty or
\* SAMPLED.
C2_RoundTripUpToFlags ==
    RoundTripFromHost =>
        /\ cur.trace_id = orig.trace_id
        /\ cur.span_id = orig.span_id
        /\ cur.is_remote = orig.is_remote
        /\ cur.trace_state = orig.trace_state
        /\ cur.trace_flags = (IF orig.trace_flags % 2 = 1 THEN SAMPLED ELSE TraceFlagsEmpty)
        /\ orig.trace_flags \in {TraceFlagsEmpty, SAMPLED} => cur = orig

C2_Witness ==
    /\ RoundTripFromHost
    /\ Len(orig.trace_state) = 2
    /\ orig.trace_state[1][1] = <<>>
    /\ orig.trace_id[1] = 0
    /\ orig.trace_id # TraceIdINVALID
    /\ orig.trace_flags = SAMPLED
    /\ cur = orig

\* Lowercase hex text of exactly `width` characters.
WellFormedHex(x, width) ==
    /\ Len(x) = width
    /\ \A i \in 1..Len(x) : \E d \in 1..16 : LowerHexChars[d] = x[i]

\* C3: a well-formed lowercase hex identifier text of the canonical length,
\* decoded to a host identifier and encoded back, is the text it was.
C3_TextRoundTrip ==
    RoundTripFromGuest =>
        /\ WellFormedHex(orig.trace_id, TraceIdHexLen) => cur.trace_id = orig.trace_id
        /\ WellFormedHex(orig.span_id, SpanIdHexLen) => cur.span_id = orig.span_id

\* C4: the host-to-guest conversion gives a trace id text of exactly 32 and
\* a span id text of exactly 16 lowercase hex characters.
C4_EncodingWidth ==
    EncodedFromHost =>
        /\ WellFormedHex(cur.trace_id, TraceIdHexLen)
        /\ WellFormedHex(cur.span_id, SpanIdHexLen)

\* Text of the wrong length, or with a character that is no hex digit.
Malformed(x, width) ==
    \/ Len(x) # width
    \/ \E i \in 1..Len(x) : ToDigit(x[i]) = -1

\* C5: an identifier text of the wrong length or with a non-hex character
\* decodes to the all-zero invalid identifier.
C5_IdentifierFallback ==
    DecodedFromGuest =>
        /\ Malformed(orig.trace_id, TraceIdHexLen) => cur.trace_id = TraceIdINVALID
        /\ Malformed(orig.span_id, SpanIdHexLen) => cur.span_id = SpanIdINVALID

(***************************************************************************)
(* Properties of the metric and span conversions.                          *)
(***************************************************************************)
Attempted == start = "guest" /\ hops = 1

PointsOf(metric) == metric.data.data_points

\* Every exemplar of every data point of a guest metric.
AllExemplars(metric) ==
    UNION {{PointsOf(metric)[i].exemplars[j] :
               j \in 1..Len(PointsOf(metric)[i].exemplars)} :
           i \in 1..Len(PointsOf(metric))}

OptionSet(x) == IF x.some THEN {x.v} ELSE {}

\* The MetricNumbers a conversion projects to the declared kind: the data
\* point values of a sum or gauge, the sum, min and max of a histogram or
\* exponential histogram, and every exemplar value.
ProjectedNumbers(metric) ==
    {e.value : e \in AllExemplars(metric)}
    \cup (IF ShapeOf(metric.variant) \in {"Sum", "Gauge"}
          THEN {PointsOf(metric)[i].value : i \in 1..Len(PointsOf(metric))}
          ELSE UNION {{PointsOf(metric)[i].sum}
                         \cup OptionSet(PointsOf(metric)[i].max)
                         \cup OptionSet(PointsOf(metric)[i].min) :
                      i \in 1..Len(PointsOf(metric))})

NumbersMatch(metric) ==
    \A n \in ProjectedNumbers(metric) : n.kind = KindOf(metric.variant)

\* The identifier strings of every exemplar have 8 and 16 bytes.
ExemplarIdsFit(metric) ==
    \A e \in AllExemplars(metric) :
        /\ Len(AsBytes(e.span_id)) = SpanIdBytes
        /\ Len(AsBytes(e.trace_id)) = TraceIdBytes

\* Every timestamp of the metric is an instant the host clock can hold.
TimesFit(metric) ==
    /\ SystemTimeFromDatetime(metric.data.time).ok
    /\ IF ShapeOf(metric.variant) = "Gauge"
       THEN \A t \in OptionSet(metric.data.start_time) : SystemTimeFromDatetime(t).ok
       ELSE SystemTimeFromDatetime(metric.data.start_time).ok
    /\ \A e \in AllExemplars(metric) : SystemTimeFromDatetime(e.time).ok

\* C6: in each of the twelve variants, a projected MetricNumber of another
\* kind than the declared one makes the conversion panic: nothing is
\* produced, and the number is never coerced.
C6_KindMismatchAborts ==
    (Attempted /\ ~NumbersMatch(orig)) => (side = "aborted" /\ cur = orig)

C6_Witness ==
    /\ Attempted
    /\ side = "aborted"
    /\ orig.variant = "U64Histogram"
    /\ Len(PointsOf(orig)) = 1
    /\ PointsOf(orig)[1].sum.kind = "U64"
    /\ PointsOf(orig)[1].max = None
    /\ PointsOf(orig)[1].min = Some(S64Number(-7))
    /\ PointsOf(orig)[1].exemplars = <<>>
    /\ TimesFit(orig)

\* The host Sum<f64> of a guest F64Sum: as many data points, in the same
\* order, each value the source float, temporality and monotonicity kept.
F64SumFidelity ==
    /\ cur.aggregation = "Sum"
    /\ cur.number_type = "F64"
    /\ Len(cur.data_points) = Len(PointsOf(orig))
    /\ \A i \in 1..Len(PointsOf(orig)) :
          cur.data_points[i].value = PointsOf(orig)[i].value.n
    /\ cur.temporality = orig.data.temporality
    /\ cur.is_monotonic = orig.data.is_monotonic

F64SumOfF64Points ==
    /\ Attempted
    /\ orig.variant = "F64Sum"
    /\ \A i \in 1..Len(PointsOf(orig)) : PointsOf(orig)[i].value.kind = "F64"

C8_ExemplarIdBytes ==
    /\ (Attempted /\ ~ExemplarIdsFit(orig)) => side = "aborted"
    /\ (Attempted /\ side = "host") =>
          \A i \in 1..Len(PointsOf(orig)) :
             \A j \in 1..Len(PointsOf(orig)[i].exemplars) :
                LET guest == PointsOf(orig)[i].exemplars[j]
                    host == cur.data_points[i].exemplars[j]
                IN  /\ host.span_id = AsBytes(guest.span_id)
                    /\ host.trace_id = AsBytes(guest.trace_id)
                    /\ Len(host.span_id) = SpanIdBytes
                    /\ Len(host.trace_id) = TraceIdBytes
                    /\ guest.span_id = GoodSpanIdText
                          => host.span_id = <<48, 48, 48, 48, 48, 48, 48, 102>>

C8_Witness ==
    /\ Attempted
    /\ side = "host"
    /\ Len(PointsOf(orig)) = 1
    /\ Len(PointsOf(orig)[1].exemplars) = 1
    /\ PointsOf(orig)[1].exemplars[1].span_id = Rep("0", 7) \o <<"1">>
    /\ cur.data_points[1].exemplars[1].span_id = <<48, 48, 48, 48, 48, 48, 48, 49>>
    /\ cur.data_points[1].exemplars[1].trace_id = Rep(97, TraceIdBytes)

\* C9: the host span's dropped counts are the guest's dropped_events,
\* dropped_links and dropped_attributes, and its event, link and attribute
\* lists have the guest lists' lengths and order; no count is recomputed
\* from a list.
C9_DroppedCountPassthrough ==
    (Attempted /\ side = "host") =>
        /\ cur.events.dropped_count = orig.dropped_events
        /\ cur.links.dropped_count = orig.dropped_links
        /\ cur.dropped_attributes_count = orig.dropped_attributes
        /\ Len(cur.events.events) = Len(orig.events)
        /\ \A i \in 1..Len(orig.events) : cur.events.events[i].name = orig.events[i].name
        /\ Len(cur.links.links) = Len(orig.links)
        /\ \A i \in 1..Len(orig.links) :
              Len(cur.links.links[i].attributes) = Len(orig.links[i].attributes)
        /\ Len(cur.attributes) = Len(orig.attributes)
        /\ \A i \in 1..Len(orig.attributes) :
              /\ cur.attributes[i].key = orig.attributes[i].key
              /\ (orig.attributes[i].value.tag = "String")
                    = (cur.attributes[i].value.tag = "String")

C9_Witness ==
    /\ Attempted
    /\ side = "host"
    /\ orig.dropped_events = 3
    /\ Len(orig.events) = 2
    /\ orig.events[1].name = "e2"
    /\ orig.events[2].name = "e1"
    /\ cur.events.dropped_count = 3
    /\ Len(cur.events.events) = 2
    /\ orig.dropped_links = 0
    /\ Len(orig.links) = 1

HistogramAttempted ==
    Attempted /\ ShapeOf(orig.variant) = "Histogram"

\* The host histogram data points carry the guest's bounds, bucket counts
\* and running count as they are.
BucketsKept ==
    /\ Len(cur.data_points) = Len(PointsOf(orig))
    /\ \A i \in 1..Len(PointsOf(orig)) :
          /\ cur.data_points[i].bounds = PointsOf(orig)[i].bounds
          /\ cur.data_points[i].bucket_counts = PointsOf(orig)[i].bucket_counts
          /\ cur.data_points[i].count = PointsOf(orig)[i].count

ValidEntry(kv) == ValidKey(kv[1]) /\ ValidValue(kv[2])

HasInvalidEntry(kvs) == \E i \in 1..Len(kvs) : ~ValidEntry(kvs[i])

HasValidEntry(kvs) == \E i \in 1..Len(kvs) : ValidEntry(kvs[i])

ValidGuestTraceStates == {kvs \in GuestTraceStates : ~HasInvalidEntry(kvs)}

\* C11: a guest span context whose trace-state list has an entry with an
\* invalid key or value is still converted; the host trace state is then
\* empty, the valid entries dropped with the invalid ones, and the trace id,
\* span id, trace flags and is_remote are what the same context with any
\* valid trace state converts to.
C11_TraceStateFallback ==
    /\ (start = "guest" /\ hops = 1) => side = "host"
    /\ (DecodedFromGuest /\ HasInvalidEntry(orig.trace_state)) =>
          /\ cur.trace_state = TraceStateDefault
          /\ \A kvs \in ValidGuestTraceStates :
                LET valid == SpanContextFromWasi([orig EXCEPT !.trace_state = kvs])
                IN  /\ valid.trace_state = kvs
                    /\ cur.trace_id = valid.trace_id
                    /\ cur.span_id = valid.span_id
                    /\ cur.trace_flags = valid.trace_flags
                    /\ cur.is_remote = valid.is_remote

C11_Witness ==
    /\ DecodedFromGuest
    /\ HasInvalidEntry(orig.trace_state)
    /\ HasValidEntry(orig.trace_state)
    /\ orig.trace_id = CanonicalText(TraceIdHexLen)
    /\ orig.trace_flags = SAMPLED
    /\ cur.trace_state = TraceStateDefault
    /\ cur.trace_flags = SAMPLED

(***************************************************************************)
(* Properties of the timestamp conversion.                                 *)
(***************************************************************************)
\* q * 10^9 + r as a u32 in two limbs, for q <= 4 and r < 10^9
NanosOf(q, r) ==
    LET lo == q * U32OneSecond[2] + (r % Limb)
        hi == q * U32OneSecond[1] + (r \div Limb) + (lo \div Limb)
    IN  <<hi, lo % Limb>>

\* The host instant is seconds * 10^9 + nanoseconds nanoseconds after the
\* epoch: its whole seconds are the guest's seconds plus the whole seconds
\* q in the guest's nanoseconds, its subsecond part the rest.
ExactInstant ==
    /\ cur.tv_nsec \in 0..(NanosPerSec - 1)
    /\ \E q \in 0..4 :
          /\ NanosOf(q, cur.tv_nsec) = orig.nanoseconds
          /\ AddSmall(orig.seconds, q) = <<0, cur.tv_sec>>

\* C12: every guest timestamp, whatever its seconds (u64) and nanoseconds
\* (u32, 10^9 and more included), is converted without aborting, to the
\* instant exactly seconds * 10^9 + nanoseconds nanoseconds after the Unix
\* epoch (so that later timestamps give later instants).
C12_TimestampTotalExact ==
    Attempted => (side = "host" /\ ExactInstant)

=============================================================================
